---------------------------- MODULE Spec2Model ----------------------------
(***************************************************************************)
(* Booking lifecycle of the health marketplace backend:                    *)
(*   backend/routes/bookings.js   POST /, PUT /:id/cancel                  *)
(*   backend/models/Booking.js    schema, updateStatus, cancelBooking,     *)
(*                                canBeCancelled                           *)
(*   models/HealthProfessional    isAvailable                              *)
(* and order lifecycle:                                                    *)
(*   routes/orders                POST /, PUT /:id/cancel, POST /:id/rate  *)
(*   models/Order                 schema, calculateTotals, updateStatus,   *)
(*                                addRating, canBeCancelled,               *)
(*                                calculateDeliveryTime                    *)
(*                                                                         *)
(* Time is counted in minutes.  An instant is the number of minutes since  *)
(* 00:00 UTC of day 0, and day 0 is a monday.  JavaScript reads            *)
(* "YYYY-MM-DD" as midnight UTC and "YYYY-MM-DDTHH:MM" as local time, so   *)
(* the server's UTC offset tz is part of the state.                        *)
(***************************************************************************)
EXTENDS Integers, Naturals, Sequences, FiniteSets, TLC

VARIABLES
  tz,        \* UTC offset of the server process, minutes east of UTC
  now,       \* the instant new Date() returns
  bookings,  \* the Booking collection, in insertion order
  inflight,  \* documents whose booking.save() was issued and has not completed
  last,      \* the response of the last request handled
  pure,      \* arguments and result of a pure function under evaluation
  orders,    \* the Order collection, in insertion order
  meals,     \* the Meal collection: price and isActive of each meal
  cancels    \* Cancel requests that have read their booking and not yet saved

vars == <<tz, now, bookings, inflight, last, pure, orders, meals, cancels>>

----------------------------------------------------------------------------
(* Bounds of the model *)

MaxTicks == 2           \* how many times the clock advances
MaxStore == 2           \* documents in the Booking collection at start
MaxSuffix == 1          \* booking-number suffixes drawn are 0..MaxSuffix
MaxEntries == 2         \* entries of an availability list given to isAvailable
MaxNotifications == 1   \* entries a booking's notification log can hold
MaxCreated == 2         \* documents the Create requests may add
MaxItems == 2           \* items of a Create-order request
MaxRated == 1           \* bookings, and orders, in the collections rated
MaxOrders == 1          \* documents in the Order collection at start
MaxRequests == 2        \* Cancel requests between their find and their save

----------------------------------------------------------------------------
(* Values *)

MinutesPerHour == 60
MinutesPerDay == 24 * MinutesPerHour
CancellationWindowHours == 24

NaN == 0 - 1              \* the time value of an Invalid Date
Undefined == 0 - 2        \* a number that is undefined
NoValue == "undefined"    \* a string that is undefined
RangeError == "RangeError"

DayNames ==
  <<"monday", "tuesday", "wednesday", "thursday", "friday", "saturday", "sunday">>

Statuses ==
  {"pending", "confirmed", "in_progress", "completed", "cancelled", "no_show"}

\* A time-of-day string accepted by /^([01]?[0-9]|2[0-3]):[0-5][0-9]$/:
\* padded says whether the hour is written with two digits ("08:00" or "8:00").
TimeString(h, m, padded) == [h |-> h, m |-> m, padded |-> padded]

\* An ISO 8601 date string: a calendar date ("date"), or a calendar date
\* followed by a time and Z ("datetime", minutes after midnight UTC).
DateString(form, day, minutes) == [form |-> form, day |-> day, minutes |-> minutes]

Users == {"u1", "u2"}
NowStart == MinutesPerDay - MinutesPerHour         \* day 0, 23:00 UTC
TimeZones == {0, 3 * MinutesPerHour}               \* UTC and UTC+3 (Nairobi)

----------------------------------------------------------------------------
(* JavaScript Date *)

\* new Date(`${appointmentDate}T${appointmentTime}`): a date-time string with
\* no offset is local time; anything but YYYY-MM-DDTHH:MM is an Invalid Date.
AppointmentDateTime(date, time, zone) ==
  IF date.form = "date" /\ time.padded
  THEN date.day * MinutesPerDay + time.h * MinutesPerHour + time.m - zone
  ELSE NaN

\* Mongoose casts a string to the Date path with new Date(string): a date-only
\* string is midnight UTC.
CastDate(date) ==
  IF date.form = "date" THEN date.day * MinutesPerDay
  ELSE date.day * MinutesPerDay + date.minutes

\* new Date(`2000-01-01 ${time}`): local time on a fixed day; the hour may have
\* one digit or two.  The fixed day and the offset are common to all three
\* dates isAvailable compares, so the minute of the day stands for the date.
ClockDate(time) == time.h * MinutesPerHour + time.m

\* a <= b between Date values: false when either is NaN.
DateLeq(a, b) == a # NaN /\ b # NaN /\ a <= b


\* appointmentDateTime.toLocaleDateString('en-US', { weekday: 'lowercase' }):
\* an Invalid Date answers "Invalid Date" before the options are read; for any
\* other date the options are read and 'lowercase' is no weekday style
\* ("narrow", "short", "long"), a RangeError.
toLocaleDateString(dateTime) ==
  IF dateTime = NaN THEN "Invalid Date" ELSE RangeError

----------------------------------------------------------------------------
(* HealthProfessional *)

AvailabilityEntry(day, startTime, endTime, open) ==
  [day |-> day, startTime |-> startTime, endTime |-> endTime, isAvailable |-> open]

\* this.availability.find(a => a.day === day && a.isAvailable): the index of
\* the first such entry, 0 when there is none.
FindAvailability(availability, day) ==
  LET hits == {i \in 1..Len(availability) :
                 availability[i].day = day /\ availability[i].isAvailable}
  IN IF hits = {} THEN 0 ELSE CHOOSE i \in hits : \A j \in hits : i <= j

isAvailable(availability, day, time) ==
  LET i == FindAvailability(availability, day)
  IN IF i = 0 THEN FALSE
     ELSE /\ ClockDate(time) >= ClockDate(availability[i].startTime)
          /\ ClockDate(time) <= ClockDate(availability[i].endTime)

\* The HealthProfessional collection: p1 takes appointments on tuesday and
\* wednesday from 08:00 to 17:00, p2 is deactivated.  Any other id is unknown.
OfficeHours ==
  << AvailabilityEntry("tuesday", TimeString(8, 0, TRUE), TimeString(17, 0, TRUE), TRUE),
     AvailabilityEntry("wednesday", TimeString(8, 0, TRUE), TimeString(17, 0, TRUE), TRUE) >>

HealthProfessional ==
  [p1 |-> [isActive |-> TRUE, consultationFee |-> 1500, availability |-> OfficeHours],
   p2 |-> [isActive |-> FALSE, consultationFee |-> 1200, availability |-> OfficeHours]]

----------------------------------------------------------------------------
(* Booking *)

BookingNumber(day, suffix) == [day |-> day, suffix |-> suffix]

\* bookingSchema.rating of a booking that was never rated.
NoRating ==
  [professional |-> Undefined, service |-> Undefined, overall |-> Undefined,
   comment |-> NoValue, date |-> Undefined]

\* new Booking({...}) with the schema defaults, before save.
NewBooking(user, professional, date, time, amount) ==
  [ user |-> user,
    healthProfessional |-> professional,
    bookingNumber |-> BookingNumber(Undefined, Undefined),
    appointmentDate |-> CastDate(date),
    appointmentTime |-> time,
    status |-> "pending",
    paymentStatus |-> "pending",
    amount |-> amount,
    cancellationReason |-> NoValue,
    cancellationDate |-> Undefined,
    cancellationBy |-> "user",
    rating |-> NoRating,
    notifications |-> << >> ]

\* bookingSchema.methods.canBeCancelled
canBeCancelled(booking) ==
  /\ booking.status \in {"pending", "confirmed"}
  /\ (booking.appointmentDate - now) > CancellationWindowHours * MinutesPerHour

\* bookingSchema.notifications[].type, its enum
NotificationTypes ==
  {"booking_confirmed", "reminder", "cancelled", "completed", "payment_received"}

\* Mongoose validates a document before it writes it: save() rejects, and
\* writes nothing, when a notification's type is outside the enum.
Validates(booking) ==
  /\ booking.status \in Statuses
  /\ \A i \in 1..Len(booking.notifications) :
       booking.notifications[i] \in NotificationTypes

\* bookingSchema.methods.cancelBooking, the document handed to save().
\* A notification is modelled by its type.
cancelBooking(booking, reason, cancelledBy) ==
  [booking EXCEPT !.status = "cancelled",
                  !.cancellationReason = reason,
                  !.cancellationDate = now,
                  !.cancellationBy = cancelledBy,
                  !.notifications = Append(@, "cancelled")]

\* bookingSchema.methods.updateStatus, the document handed to save()
updateStatus(booking, newStatus, notificationMessage) ==
  [booking EXCEPT !.status = newStatus,
                  !.notifications =
                     IF notificationMessage # NoValue /\ notificationMessage # ""
                     THEN Append(@, newStatus) ELSE @]

\* bookingSchema.methods.addRating, the document handed to save()
addRating(booking, professionalRating, serviceRating, overallRating, comment) ==
  [booking EXCEPT !.rating = [professional |-> professionalRating,
                              service |-> serviceRating,
                              overall |-> overallRating,
                              comment |-> comment,
                              date |-> now]]

\* service?.price || healthProfessional.consultationFee
\* (price is Undefined when the request has no service or no service.price)
computeAmount(price, consultationFee) ==
  IF price # Undefined /\ price # 0 THEN price ELSE consultationFee

----------------------------------------------------------------------------
(* POST /api/bookings *)

\* Request bodies that pass the validators of the route (isMongoId, isISO8601,
\* the HH:MM pattern, isFloat({min: 0})).  p0 is the id of no professional.
RequestProfessionals == {"p1", "p2", "p0"}
RequestDates ==
  {DateString("date", 1, 0), DateString("date", 2, 0), DateString("datetime", 2, 0)}
RequestTimes ==
  {TimeString(1, 0, TRUE), TimeString(17, 0, TRUE), TimeString(8, 0, FALSE)}
RequestPrices == {Undefined, 0, 500}

\* What the checks read of a request.  req.user.id and service.price are read
\* after them, where the booking is built.
CreateRequests ==
  [healthProfessionalId : RequestProfessionals, appointmentDate : RequestDates,
   appointmentTime : RequestTimes]

Response(op, code, message, evaluated) ==
  [op |-> op, code |-> code, message |-> message, evaluated |-> evaluated]

\* !healthProfessional || !healthProfessional.isActive
ProfessionalUnavailable(id) ==
  \/ id \notin DOMAIN HealthProfessional
  \/ ~HealthProfessional[id].isActive

\* The comparison written < instead of <=.
NotInFuture_strict(dateTime) == dateTime # NaN /\ dateTime < now

\* appointmentDateTime <= new Date()
NotInFuture(dateTime) == DateLeq(dateTime, now)

\* Booking.findOne({healthProfessional, appointmentDate, appointmentTime,
\*                  status: {$in: ['pending', 'confirmed']}})
conflictingBooking(request) ==
  \E i \in 1..Len(bookings) :
    /\ bookings[i].healthProfessional = request.healthProfessionalId
    /\ bookings[i].appointmentDate = CastDate(request.appointmentDate)
    /\ bookings[i].appointmentTime = request.appointmentTime
    /\ bookings[i].status \in {"pending", "confirmed"}

\* The handler without its date checks: from findById straight to the
\* conflict query.
CreateChecks_skipDateChecks(request) ==
  IF ProfessionalUnavailable(request.healthProfessionalId)
  THEN Response("create", 404, "Health professional not found or not available",
                <<"findById">>)
  ELSE IF conflictingBooking(request)
  THEN Response("create", 400, "This time slot is already booked",
                <<"findById", "conflictQuery">>)
  ELSE Response("create", 0, "", <<"findById", "conflictQuery">>)

\* The handler from findById to the conflict query: the response it sends, or
\* code 0 when every check passed and the booking is to be saved.  evaluated
\* lists the steps that ran.
CreateChecks(request) ==
  LET id == request.healthProfessionalId
      appointmentDateTime ==
        AppointmentDateTime(request.appointmentDate, request.appointmentTime, tz)
      dayOfWeek == toLocaleDateString(appointmentDateTime)
  IN IF ProfessionalUnavailable(id)
     THEN Response("create", 404, "Health professional not found or not available",
                   <<"findById">>)
     ELSE IF NotInFuture(appointmentDateTime)
     THEN Response("create", 400, "Appointment date and time must be in the future",
                   <<"findById", "futureCheck">>)
     ELSE IF dayOfWeek = RangeError
     THEN Response("create", 500, "Server error",
                   <<"findById", "futureCheck", "dayOfWeek">>)
     ELSE IF ~isAvailable(HealthProfessional[id].availability, dayOfWeek,
                          request.appointmentTime)
     THEN Response("create", 400, "Health professional is not available at this time",
                   <<"findById", "futureCheck", "dayOfWeek", "isAvailable">>)
     ELSE IF conflictingBooking(request)
     THEN Response("create", 400, "This time slot is already booked",
                   <<"findById", "futureCheck", "dayOfWeek", "isAvailable",
                     "conflictQuery">>)
     ELSE Response("create", 0, "",
                   <<"findById", "futureCheck", "dayOfWeek", "isAvailable",
                     "conflictQuery">>)

\* The local calendar day of now, which the pre-save hook writes into the
\* booking number.
Today == (now + tz) \div MinutesPerDay

RemoveAt(seq, k) == [i \in 1..(Len(seq) - 1) |-> IF i < k THEN seq[i] ELSE seq[i + 1]]

\* The handler.  It runs in two steps, separated by await booking.save():
\*   - from the request to the save being issued (resume = FALSE); the
\*     conflict query reads the collection in this step;
\*   - the save reaching the collection and the 201 (resume = TRUE): the
\*     pre-save hook draws the booking number, and the unique index on
\*     bookingNumber rejects a duplicate (the catch answers 500).
\* Requests of other clients run between the two steps.
CreateBooking(request, resume) ==
  /\ IF ~resume
     THEN LET r == CreateChecks(request)
              fee == HealthProfessional[request.healthProfessionalId].consultationFee
          IN IF r.code # 0
             THEN /\ last' = r
                  /\ UNCHANGED <<bookings, inflight>>
             ELSE /\ Len(bookings) + Len(inflight) < MaxStore + MaxCreated
                  /\ \E user \in Users, price \in RequestPrices :
                       inflight' =
                         Append(inflight,
                                NewBooking(user, request.healthProfessionalId,
                                           request.appointmentDate,
                                           request.appointmentTime,
                                           computeAmount(price, fee)))
                  /\ UNCHANGED <<bookings, last>>
     ELSE /\ Len(inflight) > 0
          /\ \E k \in 1..Len(inflight), suffix \in 0..MaxSuffix :
               LET doc == [inflight[k] EXCEPT
                             !.bookingNumber = BookingNumber(Today, suffix)]
               IN /\ inflight' = RemoveAt(inflight, k)
                  /\ IF \E i \in 1..Len(bookings) :
                          bookings[i].bookingNumber = doc.bookingNumber
                     THEN /\ last' = Response("create", 500, "Server error",
                                              <<"findById", "futureCheck", "dayOfWeek",
                                                "isAvailable", "conflictQuery", "save">>)
                          /\ UNCHANGED bookings
                     ELSE /\ bookings' = Append(bookings, doc)
                          /\ last' = Response("create", 201, "Booking created successfully",
                                              <<"findById", "futureCheck", "dayOfWeek",
                                                "isAvailable", "conflictQuery", "save">>)
  /\ UNCHANGED <<orders, meals, tz, cancels, now, pure>>

----------------------------------------------------------------------------
(* PUT /api/bookings/:id/cancel *)

Reasons == {NoValue, "schedule clash"}

CancelResponse(code, message, id, user) ==
  [op |-> "cancel", code |-> code, message |-> message, id |-> id, user |-> user]

\* The whole handler: findOne({_id, user}), canBeCancelled, cancelBooking.
\* id ranges over the documents of the collection and 0, the id of none.
CancelBooking(user, id, reason) ==
  /\ id \in 0..Len(bookings)
  /\ IF id = 0 \/ bookings[IF id = 0 THEN 1 ELSE id].user # user
     THEN /\ last' = CancelResponse(404, "Booking not found", id, user)
          /\ UNCHANGED bookings
     ELSE IF ~canBeCancelled(bookings[id])
     THEN /\ last' = CancelResponse(400, "Booking cannot be cancelled at this stage",
                                    id, user)
          /\ UNCHANGED bookings
     ELSE LET doc == cancelBooking(bookings[id], reason, "user")
          IN /\ Len(bookings[id].notifications) < MaxNotifications
             /\ IF Validates(doc)
                THEN /\ bookings' = [bookings EXCEPT ![id] = doc]
                     /\ last' = CancelResponse(200, "Booking cancelled successfully",
                                               id, user)
                ELSE /\ last' = CancelResponse(500, "Server error", id, user)
                     /\ UNCHANGED bookings
  /\ UNCHANGED <<orders, meals, tz, cancels, now, inflight, pure>>

----------------------------------------------------------------------------
(* POST /api/bookings/:id/rate *)

\* Rating bodies: the three ratings of a request, each inside 1..5 or not.
BookingRatings ==
  { [professional |-> 5, service |-> 4, overall |-> 5],
    [professional |-> 1, service |-> 2, overall |-> 1],
    [professional |-> 6, service |-> 5, overall |-> 5] }
Comments == {NoValue, "good"}

\* isFloat({min: 1, max: 5})
ValidRating(value) == value >= 1 /\ value <= 5

RateResponse(op, code, message) == [op |-> op, code |-> code, message |-> message]

\* The status a booking must have to be rated written as "not pending".
RateableBooking_notPending(booking) == booking.status # "pending"

\* booking.status !== 'completed', negated
RateableBooking(booking) == booking.status = "completed"

\* The whole handler: validators, findOne({_id, user}), the status check,
\* addRating.
RateBooking(user, id, ratings, comment) ==
  /\ id \in 0..Len(bookings)
  /\ IF ~( /\ ValidRating(ratings.professional)
           /\ ValidRating(ratings.service)
           /\ ValidRating(ratings.overall) )
     THEN /\ last' = RateResponse("rate", 400, "Validation errors")
          /\ UNCHANGED bookings
     ELSE IF id = 0 \/ bookings[IF id = 0 THEN 1 ELSE id].user # user
     THEN /\ last' = RateResponse("rate", 404, "Booking not found")
          /\ UNCHANGED bookings
     ELSE IF ~RateableBooking(bookings[id])
     THEN /\ last' = RateResponse("rate", 400, "Booking must be completed before rating")
          /\ UNCHANGED bookings
     ELSE LET doc == addRating(bookings[id], ratings.professional, ratings.service,
                               ratings.overall, comment)
          IN IF Validates(doc)
             THEN /\ bookings' = [bookings EXCEPT ![id] = doc]
                  /\ last' = RateResponse("rate", 200, "Rating submitted successfully")
             ELSE /\ last' = RateResponse("rate", 500, "Server error")
                  /\ UNCHANGED bookings
  /\ UNCHANGED <<orders, meals, tz, cancels, now, inflight, pure>>

----------------------------------------------------------------------------
(* Booking.updateStatus, the administrative transition *)

StatusMessages == {NoValue}

UpdateStatus(id, newStatus, notificationMessage) ==
  /\ id \in 1..Len(bookings)
  /\ LET doc == updateStatus(bookings[id], newStatus, notificationMessage)
     IN /\ Len(doc.notifications) <= MaxNotifications
        /\ IF Validates(doc)
           THEN /\ bookings' = [bookings EXCEPT ![id] = doc]
                /\ last' = [op |-> "updateStatus", code |-> 0, message |-> "saved"]
           ELSE /\ last' = [op |-> "updateStatus", code |-> 0,
                            message |-> "ValidationError"]
                /\ UNCHANGED bookings
  /\ UNCHANGED <<orders, meals, tz, cancels, now, inflight, pure>>

----------------------------------------------------------------------------
(* Order and Meal *)

\* Amounts are whole shillings.  Every price below is a multiple of 25, for
\* which subtotal * 0.16 is a whole number and \div is exact.
FreeDeliveryAbove == 1000
FlatDeliveryFee == 200
VatPercent == 16
DeliveryMinutes == 45

OrderStatuses ==
  {"pending", "confirmed", "preparing", "out_for_delivery", "delivered", "cancelled"}

\* orderSchema.notifications[].type, its enum
OrderNotificationTypes ==
  {"order_confirmed", "preparing", "out_for_delivery", "delivered", "payment_received"}

\* The Meal collection at start.  Any other id ("m0") is the id of no meal.
Catalog ==
  [m1 |-> [price |-> 150, isActive |-> TRUE],
   m2 |-> [price |-> 450, isActive |-> TRUE],
   m3 |-> [price |-> 450, isActive |-> FALSE]]

OrderNumber(day, suffix) == [day |-> day, suffix |-> suffix]

\* orderSchema.rating of an order that was never rated.
NoOrderRating ==
  [food |-> Undefined, delivery |-> Undefined, overall |-> Undefined,
   comment |-> NoValue, date |-> Undefined]

\* items.map(item => {...}): one line per requested item, priced from the
\* meal found for its id.
orderItems(items, found) ==
  [k \in 1..Len(items) |->
     [meal |-> items[k].mealId,
      quantity |-> items[k].quantity,
      price |-> found[items[k].mealId].price,
      totalPrice |-> found[items[k].mealId].price * items[k].quantity]]

\* lines.reduce((sum, item) => sum + item.totalPrice, 0)
RECURSIVE SumTotalPrice(_)
SumTotalPrice(lines) ==
  IF Len(lines) = 0 THEN 0
  ELSE SumTotalPrice(SubSeq(lines, 1, Len(lines) - 1)) + lines[Len(lines)].totalPrice

\* The fee charged at every subtotal.
deliveryFee_flat(subtotal) == FlatDeliveryFee

\* subtotal > 1000 ? 0 : 200
deliveryFee(subtotal) == IF subtotal > FreeDeliveryAbove THEN 0 ELSE FlatDeliveryFee

\* subtotal * 0.16
tax(subtotal) == (subtotal * VatPercent) \div 100

\* new Order({...}) with the totals of the route and the schema defaults,
\* before save.
NewOrder(user, lines) ==
  LET subtotal == SumTotalPrice(lines)
  IN [ user |-> user,
       orderNumber |-> OrderNumber(Undefined, Undefined),
       items |-> lines,
       subtotal |-> subtotal,
       deliveryFee |-> deliveryFee(subtotal),
       tax |-> tax(subtotal),
       total |-> subtotal + deliveryFee(subtotal) + tax(subtotal),
       orderStatus |-> "pending",
       paymentStatus |-> "pending",
       cancellationReason |-> NoValue,
       rating |-> NoOrderRating,
       estimated |-> Undefined,
       actual |-> Undefined,
       createdAt |-> Undefined,
       updatedAt |-> Undefined,
       notifications |-> << >> ]

\* Validation that passes a document without its required orderNumber.
ValidatesOrder_numberNotRequired(order) ==
  /\ order.orderStatus \in OrderStatuses
  /\ \A k \in 1..Len(order.items) : order.items[k].quantity >= 1
  /\ \A i \in 1..Len(order.notifications) :
       order.notifications[i] \in OrderNotificationTypes

\* Mongoose validates a document before the pre('save') hooks run: the
\* required orderNumber, which the hook of a new document would assign, is
\* still undefined then; enum values are checked as well.
ValidatesOrder(order) ==
  /\ order.orderNumber # OrderNumber(Undefined, Undefined)
  /\ order.orderStatus \in OrderStatuses
  /\ \A k \in 1..Len(order.items) : order.items[k].quantity >= 1
  /\ \A i \in 1..Len(order.notifications) :
       order.notifications[i] \in OrderNotificationTypes

\* timestamps: true.  A save of a stored document that changes a path sets
\* updatedAt; a save that changes none writes nothing.
Touch(stored, doc) == IF doc = stored THEN stored ELSE [doc EXCEPT !.updatedAt = now]

\* The total written without the tax.
calculateTotals_noTax(order) ==
  [order EXCEPT !.subtotal = SumTotalPrice(order.items),
                !.total = SumTotalPrice(order.items) + order.deliveryFee]

\* orderSchema.methods.calculateTotals, the document handed to save()
calculateTotals(order) ==
  [order EXCEPT !.subtotal = SumTotalPrice(order.items),
                !.total = SumTotalPrice(order.items) + order.deliveryFee + order.tax]

\* orderSchema.methods.updateStatus, the document handed to save()
updateOrderStatus(order, newStatus, notificationMessage) ==
  [order EXCEPT !.orderStatus = newStatus,
                !.notifications =
                   IF notificationMessage # NoValue /\ notificationMessage # ""
                   THEN Append(@, newStatus) ELSE @]

\* orderSchema.methods.addRating, the document handed to save()
addOrderRating(order, foodRating, deliveryRating, overallRating, comment) ==
  [order EXCEPT !.rating = [food |-> foodRating,
                            delivery |-> deliveryRating,
                            overall |-> overallRating,
                            comment |-> comment,
                            date |-> now]]

\* Cancellable while the order is not yet delivered.
orderCanBeCancelled_untilDelivered(order) ==
  order.orderStatus \in {"pending", "confirmed", "preparing", "out_for_delivery"}

\* orderSchema.methods.canBeCancelled
orderCanBeCancelled(order) == order.orderStatus \in {"pending", "confirmed"}

\* orderSchema.methods.calculateDeliveryTime, the document handed to save()
calculateDeliveryTime(order) ==
  [order EXCEPT !.estimated = now + DeliveryMinutes]

----------------------------------------------------------------------------
(* POST /api/orders *)

\* The items a request may list: a meal id and a quantity.  m3 is inactive,
\* m0 is the id of no meal.
ItemChoices ==
  { [mealId |-> "m1", quantity |-> 1], [mealId |-> "m1", quantity |-> 2],
    [mealId |-> "m2", quantity |-> 1], [mealId |-> "m3", quantity |-> 1],
    [mealId |-> "m0", quantity |-> 1] }

\* Request bodies: the items array, empty or not.  The other fields
\* (address, contact, payment method) are taken as valid.
OrderRequests == UNION {[1..n -> ItemChoices] : n \in 0..MaxItems}

OrderResponse(op, code, message) == [op |-> op, code |-> code, message |-> message]

\* Meal.find({_id: {$in: mealIds}, isActive: true}): the ids of the documents
\* found, each document once.
FoundMeals(items) ==
  {m \in DOMAIN meals : meals[m].isActive /\ \E k \in 1..Len(items) : items[k].mealId = m}

\* The request goes on whenever some meal was found.
MealsMissing_noneFound(items) == Cardinality(FoundMeals(items)) = 0

\* meals.length !== items.length
MealsMissing(items) == Cardinality(FoundMeals(items)) # Len(items)

\* The whole handler.  order.save() validates the new document first, and
\* the catch answers 500 when it does not validate; otherwise the pre-save
\* hook numbers the order, the unique index on orderNumber rejects a
\* duplicate, and calculateDeliveryTime saves again: a second write, which
\* the database carries out or not.
CreateOrder(items) ==
  /\ IF Len(items) = 0
     THEN /\ last' = OrderResponse("createOrder", 400, "Validation errors")
          /\ UNCHANGED orders
     ELSE IF MealsMissing(items)
     THEN /\ last' = OrderResponse("createOrder", 400, "Some meals are not available")
          /\ UNCHANGED orders
     ELSE IF \E k \in 1..Len(items) : items[k].mealId \notin FoundMeals(items)
     THEN \* meals.find(...) is undefined and meal.price throws a TypeError
          /\ last' = OrderResponse("createOrder", 500, "Server error")
          /\ UNCHANGED orders
     ELSE \E user \in Users :
            LET order == NewOrder(user, orderItems(items, meals))
            IN IF ~ValidatesOrder(order)
               THEN /\ last' = OrderResponse("createOrder", 500, "Server error")
                    /\ UNCHANGED orders
               ELSE \E suffix \in 0..MaxSuffix :
                      LET numbered ==
                            [order EXCEPT !.orderNumber = OrderNumber(Today, suffix)]
                      IN IF \E i \in 1..Len(orders) :
                              orders[i].orderNumber = numbered.orderNumber
                         THEN /\ last' = OrderResponse("createOrder", 500, "Server error")
                              /\ UNCHANGED orders
                         ELSE LET saved == [numbered EXCEPT !.createdAt = now,
                                                           !.updatedAt = now]
                              IN \E savedAgain \in BOOLEAN :
                                   IF savedAgain
                                   THEN /\ orders' =
                                             Append(orders, calculateDeliveryTime(saved))
                                        /\ last' = OrderResponse("createOrder", 201,
                                                                 "Order created successfully")
                                   ELSE /\ orders' = Append(orders, saved)
                                        /\ last' = OrderResponse("createOrder", 500,
                                                                 "Server error")
  /\ UNCHANGED <<meals, tz, cancels, now, bookings, inflight, pure>>

----------------------------------------------------------------------------
(* PUT /api/orders/:id/cancel *)

\* The handler with findOne({_id}) in place of findOne({_id, user}).
CancelOrder_ofAnyUser(user, id, reason) ==
  /\ id \in 0..Len(orders)
  /\ IF id = 0
     THEN /\ last' = OrderResponse("cancelOrder", 404, "Order not found")
          /\ UNCHANGED orders
     ELSE IF ~orderCanBeCancelled(orders[id])
     THEN /\ last' = OrderResponse("cancelOrder", 400, "Order cannot be cancelled at this stage")
          /\ UNCHANGED orders
     ELSE /\ orders' = [orders EXCEPT ![id].orderStatus = "cancelled",
                                      ![id].cancellationReason = reason]
          /\ last' = OrderResponse("cancelOrder", 200, "Order cancelled successfully")
  /\ UNCHANGED <<meals, tz, cancels, now, bookings, inflight, pure>>

\* The whole handler: findOne({_id, user}), canBeCancelled, the two
\* assignments and save.  id ranges over the documents and 0, the id of none.
CancelOrder(user, id, reason) ==
  /\ id \in 0..Len(orders)
  /\ IF id = 0 \/ orders[IF id = 0 THEN 1 ELSE id].user # user
     THEN /\ last' = OrderResponse("cancelOrder", 404, "Order not found")
          /\ UNCHANGED orders
     ELSE IF ~orderCanBeCancelled(orders[id])
     THEN /\ last' = OrderResponse("cancelOrder", 400, "Order cannot be cancelled at this stage")
          /\ UNCHANGED orders
     ELSE LET doc == [orders[id] EXCEPT !.orderStatus = "cancelled",
                                         !.cancellationReason = reason]
          IN IF ValidatesOrder(doc)
             THEN /\ orders' = [orders EXCEPT ![id] = Touch(orders[id], doc)]
                  /\ last' = OrderResponse("cancelOrder", 200, "Order cancelled successfully")
             ELSE /\ last' = OrderResponse("cancelOrder", 500, "Server error")
                  /\ UNCHANGED orders
  /\ UNCHANGED <<meals, tz, cancels, now, bookings, inflight, pure>>

----------------------------------------------------------------------------
(* POST /api/orders/:id/rate *)

OrderRatings ==
  { [food |-> 5, delivery |-> 4, overall |-> 5],
    [food |-> 6, delivery |-> 5, overall |-> 5] }

\* orderStatus !== 'delivered', negated
RateableOrder(order) == order.orderStatus = "delivered"

\* The whole handler: validators, findOne({_id, user}), the status check,
\* addRating.
RateOrder(user, id, ratings, comment) ==
  /\ id \in 0..Len(orders)
  /\ IF ~( /\ ValidRating(ratings.food)
           /\ ValidRating(ratings.delivery)
           /\ ValidRating(ratings.overall) )
     THEN /\ last' = OrderResponse("rateOrder", 400, "Validation errors")
          /\ UNCHANGED orders
     ELSE IF id = 0 \/ orders[IF id = 0 THEN 1 ELSE id].user # user
     THEN /\ last' = OrderResponse("rateOrder", 404, "Order not found")
          /\ UNCHANGED orders
     ELSE IF ~RateableOrder(orders[id])
     THEN /\ last' = OrderResponse("rateOrder", 400, "Order must be delivered before rating")
          /\ UNCHANGED orders
     ELSE LET doc == addOrderRating(orders[id], ratings.food, ratings.delivery,
                                    ratings.overall, comment)
          IN IF ValidatesOrder(doc)
             THEN /\ orders' = [orders EXCEPT ![id] = Touch(orders[id], doc)]
                  /\ last' = OrderResponse("rateOrder", 200, "Rating submitted successfully")
             ELSE /\ last' = OrderResponse("rateOrder", 500, "Server error")
                  /\ UNCHANGED orders
  /\ UNCHANGED <<meals, tz, cancels, now, bookings, inflight, pure>>

----------------------------------------------------------------------------
(* Order methods called on a stored order, and the catalog *)

\* save() of a document changed by a method: written when it validates.
SaveOrder(id, doc, op) ==
  IF ValidatesOrder(doc)
  THEN /\ orders' = [orders EXCEPT ![id] = Touch(orders[id], doc)]
       /\ last' = OrderResponse(op, 0, "saved")
  ELSE /\ last' = OrderResponse(op, 0, "ValidationError")
       /\ UNCHANGED orders

UpdateOrderStatus(id, newStatus, notificationMessage) ==
  /\ id \in 1..Len(orders)
  /\ LET doc == updateOrderStatus(orders[id], newStatus, notificationMessage)
     IN /\ Len(doc.notifications) <= MaxNotifications
        /\ SaveOrder(id, doc, "updateOrderStatus")
  /\ UNCHANGED <<meals, tz, cancels, now, bookings, inflight, pure>>

CalculateTotals(id) ==
  /\ id \in 1..Len(orders)
  /\ SaveOrder(id, calculateTotals(orders[id]), "calculateTotals")
  /\ UNCHANGED <<meals, tz, cancels, now, bookings, inflight, pure>>

CalculateDeliveryTime(id) ==
  /\ id \in 1..Len(orders)
  /\ SaveOrder(id, calculateDeliveryTime(orders[id]), "calculateDeliveryTime")
  /\ UNCHANGED <<meals, tz, cancels, now, bookings, inflight, pure>>

MealPrices == {150, 450}

\* A price change that rewrites the lines of the orders of that meal.
ChangeMealPrice_cascade(meal, price) ==
  /\ meal \in DOMAIN meals
  /\ meals[meal].price # price
  /\ meals' = [meals EXCEPT ![meal].price = price]
  /\ orders' = [i \in 1..Len(orders) |->
                  [orders[i] EXCEPT !.items =
                     [k \in 1..Len(orders[i].items) |->
                        IF orders[i].items[k].meal = meal
                        THEN [orders[i].items[k] EXCEPT !.price = price]
                        ELSE orders[i].items[k]]]]
  /\ UNCHANGED <<tz, cancels, now, bookings, inflight, last, pure>>

\* The price of a meal is changed in the catalog (mealSchema.price); no
\* order is touched.

ChangeMealPrice(meal, price) ==
  /\ meal \in DOMAIN meals
  /\ meals[meal].price # price
  /\ meals' = [meals EXCEPT ![meal].price = price]
  /\ UNCHANGED <<orders, tz, cancels, now, bookings, inflight, last, pure>>

----------------------------------------------------------------------------
(* The clock *)

Tick ==
  /\ now < NowStart + MaxTicks * MinutesPerHour
  /\ now' = now + MinutesPerHour
  /\ UNCHANGED <<orders, meals, tz, cancels, bookings, inflight, last, pure>>

----------------------------------------------------------------------------
(* Pure functions, evaluated on arguments drawn at the start *)

QueryDays == {"monday", "tuesday"}
WindowStarts == {TimeString(8, 0, TRUE), TimeString(14, 0, TRUE)}
WindowEnds == {TimeString(12, 0, TRUE), TimeString(17, 0, TRUE)}
QueryTimes ==
  {TimeString(7, 59, TRUE), TimeString(8, 0, TRUE), TimeString(15, 0, TRUE),
   TimeString(17, 0, TRUE), TimeString(17, 1, TRUE)}

AvailabilityEntries ==
  {AvailabilityEntry(d, s, e, o) :
     d \in QueryDays, s \in WindowStarts, e \in WindowEnds, o \in BOOLEAN}

AvailabilityLists ==
  UNION {[1..n -> AvailabilityEntries] : n \in 0..MaxEntries}

ConsultationFees == {0, 1500}

\* Catalogs and item lists handed to the order totals: two meals on sale at
\* any of three prices, and the requests that name each of them at most once.
PurePrices == {150, 450, 500}
PureCatalogs == [{"m1", "m2"} -> [price : PurePrices, isActive : {TRUE}]]
PureItems ==
  {items \in OrderRequests :
     /\ Len(items) > 0
     /\ \A k \in 1..Len(items) : items[k].mealId \in {"m1", "m2"}
     /\ \A j, k \in 1..Len(items) : j # k => items[j].mealId # items[k].mealId}

PureArguments ==
  {[fn |-> "newOrder", items |-> i, catalog |-> c, done |-> FALSE,
    order |-> NewOrder("u1", << >>)] : i \in PureItems, c \in PureCatalogs}
  \cup
  {[fn |-> "isAvailable", availability |-> l, day |-> d, time |-> t,
    done |-> FALSE, result |-> FALSE] :
     l \in AvailabilityLists, d \in QueryDays, t \in QueryTimes}
  \cup
  {[fn |-> "computeAmount", price |-> p, consultationFee |-> f,
    done |-> FALSE, amount |-> Undefined] :
     p \in RequestPrices, f \in ConsultationFees}

EvalIsAvailable ==
  /\ pure.fn = "isAvailable" /\ ~pure.done
  /\ pure' = [pure EXCEPT !.done = TRUE,
                          !.result = isAvailable(pure.availability, pure.day, pure.time)]
  /\ UNCHANGED <<orders, meals, tz, cancels, now, bookings, inflight, last>>

EvalComputeAmount ==
  /\ pure.fn = "computeAmount" /\ ~pure.done
  /\ pure' = [pure EXCEPT !.done = TRUE,
                          !.amount = computeAmount(pure.price, pure.consultationFee)]
  /\ UNCHANGED <<orders, meals, tz, cancels, now, bookings, inflight, last>>

EvalNewOrder ==
  /\ pure.fn = "newOrder" /\ ~pure.done
  /\ pure' = [pure EXCEPT !.done = TRUE,
                          !.order = NewOrder("u1", orderItems(pure.items, pure.catalog))]
  /\ UNCHANGED <<orders, meals, tz, cancels, now, bookings, inflight, last>>

----------------------------------------------------------------------------
(* GET /api/orders/tracking/:orderNumber *)

\* null, as the timeline writes it
Null == 0 - 3

\* The status fields of the five entries of the timeline, in its order.
Milestones ==
  <<"order_placed", "order_confirmed", "preparing", "out_for_delivery", "delivered">>

\* An entry marked completed for its own status and no other.
completed_ownStatusOnly(orderStatus, milestone) ==
  CASE milestone = "order_placed" -> TRUE
    [] milestone = "order_confirmed" -> orderStatus = "confirmed"
    [] milestone = "preparing" -> orderStatus = "preparing"
    [] milestone = "out_for_delivery" -> orderStatus = "out_for_delivery"
    [] milestone = "delivered" -> orderStatus = "delivered"

\* The completed field of the entry of a milestone.
completed(orderStatus, milestone) ==
  CASE milestone = "order_placed" -> TRUE
    [] milestone = "order_confirmed" ->
         orderStatus \in {"confirmed", "preparing", "out_for_delivery", "delivered"}
    [] milestone = "preparing" ->
         orderStatus \in {"preparing", "out_for_delivery", "delivered"}
    [] milestone = "out_for_delivery" -> orderStatus \in {"out_for_delivery", "delivered"}
    [] milestone = "delivered" -> orderStatus = "delivered"

\* Every entry the order has passed stamped with updatedAt.
timeOf_everyCompleted(order, milestone) ==
  IF completed(order.orderStatus, milestone) THEN order.updatedAt ELSE Null

\* The time field of the entry of a milestone.
timeOf(order, milestone) ==
  CASE milestone = "order_placed" -> order.createdAt
    [] milestone = "order_confirmed" ->
         IF order.orderStatus = "confirmed" THEN order.updatedAt ELSE Null
    [] milestone = "preparing" ->
         IF order.orderStatus = "preparing" THEN order.updatedAt ELSE Null
    [] milestone = "out_for_delivery" ->
         IF order.orderStatus = "out_for_delivery" THEN order.updatedAt ELSE Null
    [] milestone = "delivered" ->
         IF order.orderStatus = "delivered" THEN order.actual ELSE Null

\* const timeline = [...]
timeline(order) ==
  [i \in 1..Len(Milestones) |->
     [status |-> Milestones[i],
      time |-> timeOf(order, Milestones[i]),
      completed |-> completed(order.orderStatus, Milestones[i])]]

\* The answer of a read: the request it answers and the data it carries.
ReadResponse(op, code, message, request, data) ==
  [op |-> op, code |-> code, message |-> message, request |-> request, data |-> data]

\* populate('items.meal', select): each line's meal id replaced by the meal's
\* selected fields as the Meal collection holds them, by null when the
\* collection holds no such meal.  Of the fields selected the model has price.
populateMeal(items, withPrice) ==
  [k \in 1..Len(items) |->
     [items[k] EXCEPT !.meal =
        IF items[k].meal \notin DOMAIN meals THEN [_id |-> NoValue]
        ELSE IF withPrice THEN [_id |-> items[k].meal, price |-> meals[items[k].meal].price]
        ELSE [_id |-> items[k].meal]]]

\* The order numbers asked for: those of the stored orders and one that no
\* order has.
TrackNumbers == {OrderNumber(0 - i, 0) : i \in 0..MaxOrders}

\* The handler: findOne({orderNumber, user}), 404, or the order's summary
\* with its timeline.
TrackOrder(user, orderNumber) ==
  /\ LET matches == {i \in 1..Len(orders) :
                       orders[i].orderNumber = orderNumber /\ orders[i].user = user}
     IN IF matches = {}
        THEN last' = ReadResponse("trackOrder", 404, "Order not found",
                                  <<user, orderNumber>>, NoValue)
        ELSE LET order == orders[CHOOSE i \in matches : \A j \in matches : i <= j]
             IN last' = ReadResponse("trackOrder", 200, "", <<user, orderNumber>>,
                                     [order |-> [orderNumber |-> order.orderNumber,
                                                 status |-> order.orderStatus,
                                                 estimatedDelivery |-> order.estimated,
                                                 actualDelivery |-> order.actual,
                                                 items |-> populateMeal(order.items, FALSE)],
                                      timeline |-> timeline(order)])
  /\ UNCHANGED <<orders, meals, tz, cancels, now, bookings, inflight, pure>>

----------------------------------------------------------------------------
(* GET /api/bookings, GET /api/bookings/:id, GET /api/orders,
   GET /api/orders/:id *)

\* The status of the query string: none, or one to filter by.
StatusFilters == {NoValue, "pending"}

\* populate('healthProfessional', 'specialty consultationFee'): the id
\* replaced by the professional's selected fields, by null when there is no
\* such professional.  The user field is not among the fields selected, and
\* populate('healthProfessional.user', ...) finds no user id to replace.
populateHealthProfessional(id) ==
  IF id \in DOMAIN HealthProfessional
  THEN [_id |-> id, consultationFee |-> HealthProfessional[id].consultationFee]
  ELSE [null |-> Null]

\* The booking as the answer shows it; reading user.name of a professional
\* that carries no user throws a TypeError.
bookingView(booking) ==
  LET professional == populateHealthProfessional(booking.healthProfessional)
  IN IF "user" \notin DOMAIN professional
     THEN [error |-> "TypeError"]
     ELSE [bookingNumber |-> booking.bookingNumber,
           appointmentDate |-> booking.appointmentDate,
           appointmentTime |-> booking.appointmentTime,
           status |-> booking.status,
           paymentStatus |-> booking.paymentStatus,
           amount |-> booking.amount,
           cancellationReason |-> booking.cancellationReason,
           cancellationDate |-> booking.cancellationDate,
           rating |-> booking.rating,
           notifications |-> booking.notifications,
           healthProfessional |-> [id |-> professional._id,
                                   name |-> professional.user.name]]

\* GET /api/bookings/:id: findOne({_id, user}), 404, or the booking.
GetBooking(user, id) ==
  /\ id \in 0..Len(bookings)
  /\ IF id = 0 \/ bookings[IF id = 0 THEN 1 ELSE id].user # user
     THEN last' = ReadResponse("getBooking", 404, "Booking not found", <<user, id>>, NoValue)
     ELSE LET view == bookingView(bookings[id])
          IN IF "error" \in DOMAIN view
             THEN last' = ReadResponse("getBooking", 500, "Server error", <<user, id>>,
                                       NoValue)
             ELSE last' = ReadResponse("getBooking", 200, "", <<user, id>>, view)
  /\ UNCHANGED <<orders, meals, tz, cancels, now, bookings, inflight, pure>>

\* GET /api/bookings with the default page and limit: the user's bookings,
\* of the status asked for if any.  The order of the list is that of the
\* sort by appointmentDate and appointmentTime; the model leaves it at the
\* collection's, since a list of one booking or more is never answered.
ListBookings(user, status) ==
  /\ LET found == SelectSeq(bookings,
                            LAMBDA b : b.user = user /\ (status = NoValue \/ b.status = status))
         views == [k \in 1..Len(found) |-> bookingView(found[k])]
     IN IF \E k \in 1..Len(views) : "error" \in DOMAIN views[k]
        THEN last' = ReadResponse("listBookings", 500, "Server error", <<user, status>>,
                                  NoValue)
        ELSE last' = ReadResponse("listBookings", 200, "", <<user, status>>,
                                  [bookings |-> views, totalItems |-> Len(found)])
  /\ UNCHANGED <<orders, meals, tz, cancels, now, bookings, inflight, pure>>

\* A get that recomputes the estimated delivery time of the order it has
\* read, and saves it.
GetOrder_refreshesEstimate(user, id) ==
  /\ id \in 0..Len(orders)
  /\ IF id = 0 \/ orders[IF id = 0 THEN 1 ELSE id].user # user
     THEN /\ last' = ReadResponse("getOrder", 404, "Order not found", <<user, id>>, NoValue)
          /\ UNCHANGED orders
     ELSE /\ orders' = [orders EXCEPT ![id] = calculateDeliveryTime(@)]
          /\ last' = ReadResponse("getOrder", 200, "", <<user, id>>,
                                  [orderNumber |-> orders'[id].orderNumber,
                                   orderStatus |-> orders'[id].orderStatus,
                                   deliveryTime |-> [estimated |-> orders'[id].estimated,
                                                     actual |-> orders'[id].actual]])
  /\ UNCHANGED <<meals, tz, cancels, now, bookings, inflight, pure>>

\* GET /api/orders/:id: findOne({_id, user}), 404, or the order.
GetOrder(user, id) ==
  /\ id \in 0..Len(orders)
  /\ IF id = 0 \/ orders[IF id = 0 THEN 1 ELSE id].user # user
     THEN last' = ReadResponse("getOrder", 404, "Order not found", <<user, id>>, NoValue)
     ELSE LET order == orders[id]
          IN last' = ReadResponse("getOrder", 200, "", <<user, id>>,
                                  [orderNumber |-> order.orderNumber,
                                   items |-> populateMeal(order.items, TRUE),
                                   subtotal |-> order.subtotal,
                                   deliveryFee |-> order.deliveryFee,
                                   tax |-> order.tax,
                                   total |-> order.total,
                                   paymentStatus |-> order.paymentStatus,
                                   orderStatus |-> order.orderStatus,
                                   deliveryTime |-> [estimated |-> order.estimated,
                                                     actual |-> order.actual],
                                   rating |-> order.rating,
                                   notifications |-> order.notifications,
                                   createdAt |-> order.createdAt,
                                   updatedAt |-> order.updatedAt])
  /\ UNCHANGED <<orders, meals, tz, cancels, now, bookings, inflight, pure>>

\* sort({createdAt: -1}); orders of equal createdAt stay in the collection's
\* order.
RECURSIVE sortByCreatedAtDescending(_)
sortByCreatedAtDescending(found) ==
  IF Len(found) <= 1 THEN found
  ELSE LET rest == sortByCreatedAtDescending(Tail(found))
           later == Cardinality({k \in 1..Len(rest) :
                                   rest[k].createdAt > Head(found).createdAt})
       IN SubSeq(rest, 1, later) \o <<Head(found)>> \o SubSeq(rest, later + 1, Len(rest))

\* GET /api/orders with the default page and limit: the user's orders, of
\* the status asked for if any, the newest first.
ListOrders(user, status) ==
  /\ LET found == sortByCreatedAtDescending(
                    SelectSeq(orders,
                              LAMBDA o : /\ o.user = user
                                         /\ (status = NoValue \/ o.orderStatus = status)))
     IN last' = ReadResponse("listOrders", 200, "", <<user, status>>,
                             [orders |-> [k \in 1..Len(found) |->
                                            [orderNumber |-> found[k].orderNumber,
                                             items |-> populateMeal(found[k].items, TRUE),
                                             total |-> found[k].total,
                                             orderStatus |-> found[k].orderStatus,
                                             paymentStatus |-> found[k].paymentStatus,
                                             deliveryTime |->
                                               [estimated |-> found[k].estimated,
                                                actual |-> found[k].actual],
                                             createdAt |-> found[k].createdAt]],
                              totalItems |-> Len(found)])
  /\ UNCHANGED <<orders, meals, tz, cancels, now, bookings, inflight, pure>>

----------------------------------------------------------------------------
(* The Booking collection at start *)

StoreTimes == {TimeString(1, 0, TRUE), TimeString(17, 0, TRUE)}
StoreDate == DateString("date", 2, 0)
StoreStatuses == {"pending", "confirmed", "completed", "cancelled"}

\* Document i of the collection: booked by a user with p1 on day 2 at the
\* given time on an earlier day, and since then moved to the given status;
\* a cancelled one was cancelled by its user at NowStart.
StoredBooking(i, time, status) ==
  LET user == IF i % 2 = 1 THEN "u1" ELSE "u2"
      created == [NewBooking(user, "p1", StoreDate, time,
                             HealthProfessional["p1"].consultationFee)
                    EXCEPT !.bookingNumber = BookingNumber(0 - i, 0)]
  IN IF status = "cancelled"
     THEN [created EXCEPT !.status = "cancelled",
                          !.cancellationReason = "schedule clash",
                          !.cancellationDate = NowStart,
                          !.cancellationBy = "user",
                          !.notifications = <<"cancelled">>]
     ELSE [created EXCEPT !.status = status]

\* At most one pending or confirmed booking for a professional, date and time.
NoDoubleBookingIn(store) ==
  \A i, j \in 1..Len(store) :
    ( /\ i # j
      /\ store[i].healthProfessional = store[j].healthProfessional
      /\ store[i].appointmentDate = store[j].appointmentDate
      /\ store[i].appointmentTime = store[j].appointmentTime
      /\ store[i].status \in {"pending", "confirmed"} )
    => store[j].status \notin {"pending", "confirmed"}

\* The collections of n documents.
StoresOf(n) ==
  {store \in
     {[i \in 1..n |-> StoredBooking(i, t[i], st[i])] :
        t \in [1..n -> StoreTimes], st \in [1..n -> StoreStatuses]} :
     NoDoubleBookingIn(store)}

InitialStores == StoresOf(MaxStore)

----------------------------------------------------------------------------
(* The Order collection at start *)

\* Document i of the collection: ordered by a user before NowStart at the
\* catalog prices of that time, and since then moved to the given status;
\* a cancelled one was cancelled with a reason.
StoredOrder(i, status) ==
  LET user == IF i % 2 = 1 THEN "u1" ELSE "u2"
      items == IF i % 2 = 1
               THEN << [mealId |-> "m1", quantity |-> 2], [mealId |-> "m2", quantity |-> 1] >>
               ELSE << [mealId |-> "m2", quantity |-> 3] >>
      created == [NewOrder(user, orderItems(items, Catalog))
                    EXCEPT !.orderNumber = OrderNumber(0 - i, 0),
                           !.createdAt = NowStart - DeliveryMinutes,
                           !.updatedAt = NowStart,
                           !.estimated = NowStart]
  IN IF status = "cancelled"
     THEN [created EXCEPT !.orderStatus = "cancelled",
                          !.cancellationReason = "schedule clash"]
     ELSE [created EXCEPT !.orderStatus = status]

OrderStoresOf(n) ==
  {[i \in 1..n |-> StoredOrder(i, st[i])] : st \in [1..n -> OrderStatuses]}

----------------------------------------------------------------------------
(* Specifications *)

NoCall == [op |-> "none", code |-> 0, message |-> ""]
NoPure == [fn |-> "none", done |-> TRUE]

Init ==
  /\ tz \in TimeZones
  /\ now = NowStart
  /\ bookings \in InitialStores
  /\ inflight = << >>
  /\ last = NoCall
  /\ pure = NoPure
  /\ orders = << >>
  /\ meals = Catalog
  /\ cancels = << >>

Create == \E r \in CreateRequests, resume \in BOOLEAN : CreateBooking(r, resume)
Cancel == \E u \in Users, id \in 0..MaxStore + MaxCreated, reason \in Reasons : CancelBooking(u, id, reason)
Advance == \E id \in 1..MaxStore + MaxCreated, s \in Statuses, m \in StatusMessages : UpdateStatus(id, s, m)

\* The server: requests of every kind, in any order.
Next == Tick \/ Create \/ Cancel \/ Advance
Spec == Init /\ [][Next]_vars

\* Create requests alone, against a collection that does not otherwise change.
NextCreate == Tick \/ Create
SpecCreate == Init /\ [][NextCreate]_vars

\* The pure functions.
InitPure ==
  /\ tz = 0
  /\ now = NowStart
  /\ bookings = << >>
  /\ inflight = << >>
  /\ last = NoCall
  /\ pure \in PureArguments
  /\ orders = << >>
  /\ meals = Catalog
  /\ cancels = << >>

NextPure == EvalIsAvailable \/ EvalComputeAmount \/ EvalNewOrder
SpecPure == InitPure /\ [][NextPure]_vars

\* Cancel and updateStatus alone.
NextLifecycle == Tick \/ Cancel \/ Advance
SpecLifecycle == Init /\ [][NextLifecycle]_vars

\* The Rate requests, on bookings and on orders.  The bookings rated are all
\* at 17:00.
RatedStores ==
  {store \in StoresOf(MaxRated) :
     \A i \in 1..Len(store) : store[i].appointmentTime = TimeString(17, 0, TRUE)}

InitRate ==
  /\ tz = 0
  /\ now = NowStart
  /\ bookings \in RatedStores
  /\ inflight = << >>
  /\ last = NoCall
  /\ pure = NoPure
  /\ orders \in OrderStoresOf(MaxRated)
  /\ meals = Catalog
  /\ cancels = << >>

Rate ==
  \E u \in Users, id \in 0..MaxRated, r \in BookingRatings, c \in Comments :
    RateBooking(u, id, r, c)
RateAnOrder ==
  \E u \in Users, id \in 0..MaxRated, r \in OrderRatings, c \in Comments :
    RateOrder(u, id, r, c)

NextRate == Rate \/ RateAnOrder
SpecRate == InitRate /\ [][NextRate]_vars

\* The order routes, the Order methods and the catalog.
InitOrders ==
  /\ tz = 0
  /\ now = NowStart
  /\ bookings = << >>
  /\ inflight = << >>
  /\ last = NoCall
  /\ pure = NoPure
  /\ orders \in OrderStoresOf(MaxOrders)
  /\ meals = Catalog
  /\ cancels = << >>

\* Create requests of one item; the longer ones are in SpecOrderCreate.
CreateSmallOrder == \E items \in [1..1 -> ItemChoices] : CreateOrder(items)
CancelAnOrder ==
  \E u \in Users, id \in 0..MaxOrders, reason \in Reasons : CancelOrder(u, id, reason)
RateStoredOrder ==
  \E u \in Users, id \in 0..MaxOrders, r \in OrderRatings : RateOrder(u, id, r, NoValue)
AdvanceOrder ==
  \E id \in 1..MaxOrders, s \in OrderStatuses, m \in StatusMessages :
    UpdateOrderStatus(id, s, m)
Totals == \E id \in 1..MaxOrders : CalculateTotals(id)
DeliveryTime == \E id \in 1..MaxOrders : CalculateDeliveryTime(id)
\* The price of a meal on sale changes.
PriceChange ==
  \E m \in {c \in DOMAIN Catalog : Catalog[c].isActive}, p \in MealPrices :
    ChangeMealPrice(m, p)

NextOrders ==
  \/ CreateSmallOrder \/ CancelAnOrder \/ RateStoredOrder \/ AdvanceOrder
  \/ Totals \/ DeliveryTime \/ PriceChange
SpecOrders == InitOrders /\ [][NextOrders]_vars

\* Create-order requests of every length, against a catalog whose prices
\* change.
CreateAnOrder == \E items \in OrderRequests : CreateOrder(items)
CatalogChange == \E m \in DOMAIN Catalog, p \in MealPrices : ChangeMealPrice(m, p)

NextOrderCreate == CreateAnOrder \/ CatalogChange
SpecOrderCreate == InitOrders /\ [][NextOrderCreate]_vars

\* Status changes that carry a notification message, on bookings and on
\* orders.
NotificationMessages == {"Your status has changed"}

NotifyBooking ==
  \E id \in 1..MaxRated, s \in Statuses, m \in NotificationMessages :
    UpdateStatus(id, s, m)
NotifyOrder ==
  \E id \in 1..MaxRated, s \in OrderStatuses, m \in NotificationMessages :
    UpdateOrderStatus(id, s, m)

NextNotify == NotifyBooking \/ NotifyOrder
SpecNotify == InitRate /\ [][NextNotify]_vars

\* PUT /api/bookings/:id/cancel as the event loop runs it: two steps,
\* separated by the await of booking.save() inside cancelBooking.  Requests
\* on the same booking interleave between the steps.

\* The first step: findOne({_id, user}) reads the stored document, the
\* handler answers 404 or 400, or cancelBooking changes the document it has
\* read and hands it to save.
CancelFind(user, id, reason) ==
  /\ id \in 0..Len(bookings)
  /\ Len(cancels) < MaxRequests
  /\ IF id = 0 \/ bookings[IF id = 0 THEN 1 ELSE id].user # user
     THEN /\ last' = CancelResponse(404, "Booking not found", id, user)
          /\ UNCHANGED cancels
     ELSE IF ~canBeCancelled(bookings[id])
     THEN /\ last' = CancelResponse(400, "Booking cannot be cancelled at this stage",
                                    id, user)
          /\ UNCHANGED cancels
     ELSE /\ cancels' = Append(cancels,
                               [id |-> id, user |-> user,
                                doc |-> cancelBooking(bookings[id], reason, "user")])
          /\ UNCHANGED last
  /\ UNCHANGED <<orders, meals, tz, now, bookings, inflight, pure>>

\* The second step: save() validates the document the request holds and
\* sends updateOne({_id}, {$set: {status, cancellationReason,
\* cancellationDate, cancellationBy}, $push: {notifications}}); the stored
\* document takes the four fields and one more notification, whatever it has
\* become since the request read it.
CancelSave(k) ==
  /\ k \in 1..Len(cancels)
  /\ LET request == cancels[k]
         stored == bookings[request.id]
     IN IF Validates(request.doc)
        THEN /\ bookings' =
                  [bookings EXCEPT ![request.id] =
                     [stored EXCEPT !.status = request.doc.status,
                                    !.cancellationReason = request.doc.cancellationReason,
                                    !.cancellationDate = request.doc.cancellationDate,
                                    !.cancellationBy = request.doc.cancellationBy,
                                    !.notifications = Append(@, "cancelled")]]
             /\ last' = CancelResponse(200, "Booking cancelled successfully",
                                       request.id, request.user)
        ELSE /\ last' = CancelResponse(500, "Server error", request.id, request.user)
             /\ UNCHANGED bookings
  /\ cancels' = RemoveAt(cancels, k)
  /\ UNCHANGED <<orders, meals, tz, now, inflight, pure>>

\* Cancel requests that interleave, while the clock runs.
FindToCancel ==
  \E u \in Users, id \in 0..MaxRated, reason \in Reasons : CancelFind(u, id, reason)
SaveCancelled == \E k \in 1..MaxRequests : CancelSave(k)

NextCancelRace == FindToCancel \/ SaveCancelled \/ Tick
SpecCancelRace == InitRate /\ [][NextCancelRace]_vars

\* Orders tracked while their status moves and the clock runs.
Track == \E u \in Users, n \in TrackNumbers : TrackOrder(u, n)

NextTrack == Track \/ AdvanceOrder \/ Tick
SpecTrack == InitOrders /\ [][NextTrack]_vars

\* The reads of bookings and of orders, between changes of an order's status
\* and cancellations of a booking.
ReadBooking == \E u \in Users, id \in 0..MaxRated : GetBooking(u, id)
ReadBookings == \E u \in Users, s \in StatusFilters : ListBookings(u, s)
ReadOrder == \E u \in Users, id \in 0..MaxRated : GetOrder(u, id)
ReadOrders == \E u \in Users, s \in StatusFilters : ListOrders(u, s)
CancelRated ==
  \E u \in Users, id \in 1..MaxRated, reason \in Reasons : CancelBooking(u, id, reason)

NextRead ==
  \/ ReadBooking \/ ReadBookings \/ ReadOrder \/ ReadOrders \/ Track
  \/ AdvanceOrder \/ CancelRated
SpecRead == InitRate /\ [][NextRead]_vars

\* Cancel and Rate requests of every user on the stored bookings and orders.
CancelStoredOrder ==
  \E u \in Users, id \in 0..MaxRated, reason \in Reasons : CancelOrder(u, id, reason)

RateRated ==
  \E u \in Users, id \in 0..MaxRated, r \in BookingRatings : RateBooking(u, id, r, NoValue)
RateRatedOrder ==
  \E u \in Users, id \in 0..MaxRated, r \in OrderRatings : RateOrder(u, id, r, NoValue)

NextOwner == CancelRated \/ CancelStoredOrder \/ RateRated \/ RateRatedOrder
SpecOwner == InitRate /\ [][NextOwner]_vars

\* Create and Cancel requests, for bookings and for orders, while the clock
\* runs.
CreateForRated == \E r \in CreateRequests : CreateBooking(r, FALSE)

NextFailures ==
  CreateForRated \/ CancelRated \/ CreateSmallOrder \/ CancelStoredOrder \/ Tick
SpecFailures == InitRate /\ [][NextFailures]_vars

----------------------------------------------------------------------------
(* What the claims speak of *)

\* The instant a request asks for: its date and time read as the route reads
\* them, NaN when the combined string is no date.
RequestedInstant(request) ==
  AppointmentDateTime(request.appointmentDate, request.appointmentTime, tz)

DenotesFuture(request) ==
  RequestedInstant(request) # NaN /\ RequestedInstant(request) > now

\* The instant of a stored appointment: its calendar date and its time of
\* day, on the server's clock as in the route.
AppointmentInstant(booking) ==
  booking.appointmentDate + ClockDate(booking.appointmentTime) - tz

\* The weekday of the local calendar day an instant falls on.
LocalWeekday(instant, zone) ==
  DayNames[(((instant + zone) \div MinutesPerDay) % 7) + 1]

\* Some entry of the list has the day, is open and contains the time.
InSomeWindow(availability, day, time) ==
  \E i \in 1..Len(availability) :
    /\ availability[i].day = day
    /\ availability[i].isAvailable
    /\ ClockDate(availability[i].startTime) <= ClockDate(time)
    /\ ClockDate(time) <= ClockDate(availability[i].endTime)

\* The request names an active professional and a future instant inside (or
\* outside) the professional's windows.
Bookable(request, inside) ==
  /\ ~ProfessionalUnavailable(request.healthProfessionalId)
  /\ DenotesFuture(request)
  /\ inside = InSomeWindow(HealthProfessional[request.healthProfessionalId].availability,
                           LocalWeekday(RequestedInstant(request), tz),
                           request.appointmentTime)

Range(seq) == {seq[i] : i \in 1..Len(seq)}

----------------------------------------------------------------------------
(* Claims *)

\* C1: in every reachable state at most one booking with status pending or
\* confirmed exists for a (professional, appointment date, appointment time).
C1_NoDoubleBooking == NoDoubleBookingIn(bookings)

\* C2: a Create request for a (professional, date, time string) that a pending
\* or confirmed booking occupies is answered 400 "This time slot is already
\* booked" and adds no booking.  Stated for requests that pass the earlier
\* checks: active professional, future instant inside a window.
C2_ConflictRejected ==
  [][\A r \in CreateRequests :
       (Bookable(r, TRUE) /\ conflictingBooking(r) /\ CreateBooking(r, FALSE))
       => /\ last'.code = 400
          /\ last'.message = "This time slot is already booked"
          /\ bookings' = bookings
          /\ inflight' = inflight]_vars

\* C3: a Create request for an active professional, a future instant inside a
\* window and a free slot is not answered with an error: one new booking with
\* status pending and paymentStatus pending is handed to save.
C3_CreateSucceeds ==
  [][\A r \in CreateRequests :
       (Bookable(r, TRUE) /\ ~conflictingBooking(r) /\ CreateBooking(r, FALSE))
       => /\ Len(inflight') = Len(inflight) + 1
          /\ inflight'[Len(inflight')].status = "pending"
          /\ inflight'[Len(inflight')].paymentStatus = "pending"
          /\ last' = last]_vars

\* C4: the amount of a booking is service.price whenever a price was given,
\* 0 included, and the consultation fee only when none was given.
C4_AmountIsPrice ==
  (pure.fn = "computeAmount" /\ pure.done)
  => pure.amount = (IF pure.price # Undefined THEN pure.price ELSE pure.consultationFee)

\* C5: a Create request for an active professional whose appointment instant
\* is at or before now is answered 400 "must be in the future", persists
\* nothing, and neither isAvailable nor the conflict query has run.
C5_PastRejectedFirst ==
  [][\A r \in CreateRequests :
       ( /\ ~ProfessionalUnavailable(r.healthProfessionalId)
         /\ RequestedInstant(r) # NaN
         /\ RequestedInstant(r) <= now
         /\ CreateBooking(r, FALSE) )
       => /\ last'.code = 400
          /\ last'.message = "Appointment date and time must be in the future"
          /\ bookings' = bookings
          /\ inflight' = inflight
          /\ Range(last'.evaluated) \cap {"dayOfWeek", "isAvailable", "conflictQuery", "save"} = {}]_vars

\* A Create request for a past or present instant has been rejected by the
\* future check.
C5_Witness ==
  /\ last.op = "create"
  /\ last.code = 400
  /\ last.message = "Appointment date and time must be in the future"
  /\ last.evaluated = <<"findById", "futureCheck">>

\* C6: a Create request whose date and time do not denote a future instant
\* (a past or present instant, or a string that is no date) hands no booking
\* to save and leaves the collection as it was; so every booking a request
\* creates lies strictly in the future when it is created.
C6_OnlyFutureCreated ==
  [][\A r \in CreateRequests :
       (~DenotesFuture(r) /\ CreateBooking(r, FALSE))
       => /\ bookings' = bookings
          /\ inflight' = inflight
          /\ last'.op = "create"
          /\ last'.code # 201]_vars

\* A Create request whose date and time are no date got past the future check
\* and was turned away by isAvailable.
C6_Witness ==
  /\ last.op = "create"
  /\ last.code = 400
  /\ last.message = "Health professional is not available at this time"
  /\ inflight = << >>

\* C7: a Create request for an active professional and a future instant
\* outside every window is answered 400 "not available at this time" and
\* persists nothing.
C7_OutsideWindowRejected ==
  [][\A r \in CreateRequests :
       (Bookable(r, FALSE) /\ CreateBooking(r, FALSE))
       => /\ last'.code = 400
          /\ last'.message = "Health professional is not available at this time"
          /\ bookings' = bookings
          /\ inflight' = inflight]_vars

\* C8: isAvailable(day, time) is true exactly when some entry of the list has
\* that day, is open, and startTime <= time <= endTime.
C8_AvailableIffSomeWindow ==
  (pure.fn = "isAvailable" /\ pure.done)
  => (pure.result <=> InSomeWindow(pure.availability, pure.day, pure.time))

\* C9: a Cancel request by the owner when the appointment (date and time) is
\* less than 24 hours after now is answered 400 and leaves the booking
\* unchanged, whatever its status.
C9_InsideWindowRejected ==
  [][\A u \in Users, id \in 1..Len(bookings), reason \in Reasons :
       ( /\ bookings[id].user = u
         /\ AppointmentInstant(bookings[id]) - now < CancellationWindowHours * MinutesPerHour
         /\ CancelBooking(u, id, reason) )
       => /\ last'.code = 400
          /\ bookings' = bookings]_vars

\* C10: a Cancel request by the owner is accepted exactly when the status is
\* pending or confirmed and the appointment instant (date and time) is more
\* than 24 hours after now.
C10_CancelIffAllowed ==
  [][\A u \in Users, id \in 1..Len(bookings), reason \in Reasons :
       (bookings[id].user = u /\ CancelBooking(u, id, reason))
       => ( last'.code = 200
            <=> ( /\ bookings[id].status \in {"pending", "confirmed"}
                  /\ AppointmentInstant(bookings[id]) - now
                       > CancellationWindowHours * MinutesPerHour ) )]_vars

\* C11: in every state, a booking whose status is cancelled has
\* cancellationReason, cancellationDate and cancellationBy all set, and a
\* booking with any other status has none of the three set.
C11_CancellationFieldsIffCancelled ==
  \A i \in 1..Len(bookings) :
    LET b == bookings[i]
    IN IF b.status = "cancelled"
       THEN /\ b.cancellationReason # NoValue
            /\ b.cancellationDate # Undefined
            /\ b.cancellationBy # NoValue
       ELSE /\ b.cancellationReason = NoValue
            /\ b.cancellationDate = Undefined
            /\ b.cancellationBy = NoValue

\* The edges of the booking status graph as the specification draws it.
BookingEdges ==
  { <<"pending", "confirmed">>, <<"confirmed", "in_progress">>,
    <<"in_progress", "completed">>, <<"pending", "cancelled">>,
    <<"confirmed", "cancelled">>, <<"confirmed", "no_show">> }

\* C12: every change of a booking's status, by Cancel or by updateStatus,
\* follows an edge of pending -> confirmed -> in_progress -> completed,
\* pending|confirmed -> cancelled, confirmed -> no_show; so completed,
\* cancelled and no_show are never left.
C12_StatusFollowsGraph ==
  [][\A i \in 1..Len(bookings) :
       (i <= Len(bookings') /\ bookings'[i].status # bookings[i].status)
       => <<bookings[i].status, bookings'[i].status>> \in BookingEdges]_vars

\* C13: a Rate request by the owner on a booking whose status is not
\* completed, or on an order whose status is not delivered, is answered 400
\* and leaves the booking, or the order, as it was; and no step writes a
\* rating of a booking that is not completed or of an order that is not
\* delivered.
C13_RateOnlyAfterSuccess ==
  [][ /\ \A u \in Users, id \in 1..Len(bookings), r \in BookingRatings, c \in Comments :
           ( /\ bookings[id].user = u
             /\ bookings[id].status # "completed"
             /\ RateBooking(u, id, r, c) )
           => (last'.code = 400 /\ bookings' = bookings)
      /\ \A u \in Users, id \in 1..Len(orders), r \in OrderRatings, c \in Comments :
           ( /\ orders[id].user = u
             /\ orders[id].orderStatus # "delivered"
             /\ RateOrder(u, id, r, c) )
           => (last'.code = 400 /\ orders' = orders)
      /\ \A i \in 1..Len(bookings) :
           bookings'[i].rating # bookings[i].rating => bookings[i].status = "completed"
      /\ \A i \in 1..Len(orders) :
           orders'[i].rating # orders[i].rating => orders[i].orderStatus = "delivered"
    ]_vars

\* A Rate request on a booking that is not completed has been turned away,
\* and no booking but a completed one carries a rating.
C13_Witness ==
  /\ last = RateResponse("rate", 400, "Booking must be completed before rating")
  /\ \E i \in 1..Len(bookings) :
       bookings[i].status # "completed" /\ bookings[i].rating = NoRating

\* C14: once a Rate request has succeeded on a booking, no later Rate request
\* changes the stored professional, service, overall, comment or date.
C14_RatedOnce ==
  [][\A i \in 1..Len(bookings) :
       bookings[i].rating # NoRating => bookings'[i].rating = bookings[i].rating]_vars

\* The sum over the lines of unit price times quantity.
RECURSIVE SumPriceTimesQuantity(_)
SumPriceTimesQuantity(lines) ==
  IF Len(lines) = 0 THEN 0
  ELSE SumPriceTimesQuantity(SubSeq(lines, 1, Len(lines) - 1))
       + lines[Len(lines)].price * lines[Len(lines)].quantity

\* C15: in every state every stored order has total = subtotal + deliveryFee
\* + tax, subtotal = the sum over its lines of price x quantity, and each
\* line's totalPrice = price x quantity.
C15_TotalsConsistent ==
  \A i \in 1..Len(orders) :
    /\ orders[i].total = orders[i].subtotal + orders[i].deliveryFee + orders[i].tax
    /\ orders[i].subtotal = SumPriceTimesQuantity(orders[i].items)
    /\ \A k \in 1..Len(orders[i].items) :
         orders[i].items[k].totalPrice
           = orders[i].items[k].price * orders[i].items[k].quantity

\* calculateTotals has saved an order that was cancelled, after the price of
\* one of its meals had changed in the catalog.
C15_Witness ==
  /\ last = OrderResponse("calculateTotals", 0, "saved")
  /\ \E i \in 1..Len(orders) :
       /\ orders[i].orderStatus = "cancelled"
       /\ orders[i].estimated = now + DeliveryMinutes
       /\ \E k \in 1..Len(orders[i].items) :
            meals[orders[i].items[k].meal].price # orders[i].items[k].price

\* C16: the order built by Create has deliveryFee 0 when its subtotal is
\* strictly greater than 1000 and 200 otherwise, and tax 16% of the subtotal;
\* items 150 x 2 and 450 x 1 give subtotal 750, deliveryFee 200, tax 120 and
\* total 1070.
C16_FeeAndTax ==
  (pure.fn = "newOrder" /\ pure.done)
  => /\ pure.order.deliveryFee = (IF pure.order.subtotal > 1000 THEN 0 ELSE 200)
     /\ 100 * pure.order.tax = 16 * pure.order.subtotal
     /\ ( ( /\ pure.items = << [mealId |-> "m1", quantity |-> 2],
                               [mealId |-> "m2", quantity |-> 1] >>
            /\ pure.catalog["m1"].price = 150
            /\ pure.catalog["m2"].price = 450 )
          => ( /\ pure.order.subtotal = 750
               /\ pure.order.deliveryFee = 200
               /\ pure.order.tax = 120
               /\ pure.order.total = 1070 ) )

\* The totals of an order whose subtotal is exactly 1000 have been computed.
C16_Witness ==
  /\ pure.fn = "newOrder"
  /\ pure.done
  /\ pure.order.subtotal = 1000
  /\ pure.order.deliveryFee = 200
  /\ pure.order.tax = 160

\* Some item of the request names a meal that is missing or inactive.
SomeMealUnavailable(items) ==
  \E k \in 1..Len(items) :
    \/ items[k].mealId \notin DOMAIN meals
    \/ ~meals[items[k].mealId].isActive

\* C17: a Create-order request in which some item names a missing or inactive
\* meal, whatever the other items and repeated ids included, is answered 400
\* and persists no order; and every line of an order a step adds names a meal
\* that is in the catalog and active at that step.
C17_NoPartialOrder ==
  [][ /\ \A items \in OrderRequests :
           (SomeMealUnavailable(items) /\ CreateOrder(items))
           => (last'.code = 400 /\ orders' = orders)
      /\ \A i \in (Len(orders) + 1)..Len(orders') :
           \A k \in 1..Len(orders'[i].items) :
             /\ orders'[i].items[k].meal \in DOMAIN meals
             /\ meals[orders'[i].items[k].meal].isActive
    ]_vars

\* A request naming an unavailable meal has been rejected as a whole.
C17_Witness ==
  /\ last = OrderResponse("createOrder", 400, "Some meals are not available")
  /\ orders \in OrderStoresOf(MaxOrders)

\* C18: the unit price and the line total of the lines of a stored order are
\* left as they are by every step: a change of the meal's catalog price,
\* Cancel, Rate, updateStatus, calculateTotals, calculateDeliveryTime and
\* Create; and the lines of an order a step adds carry the catalog price of
\* that step.
C18_LinePricesFixed ==
  [][ /\ \A i \in 1..Len(orders) :
           /\ i <= Len(orders')
           /\ orders'[i].items = orders[i].items
      /\ \A i \in (Len(orders) + 1)..Len(orders') :
           \A k \in 1..Len(orders'[i].items) :
             /\ orders'[i].items[k].price = meals[orders'[i].items[k].meal].price
             /\ orders'[i].items[k].totalPrice
                  = meals[orders'[i].items[k].meal].price * orders'[i].items[k].quantity
    ]_vars

\* The catalog price of a meal differs from the price in an order's line,
\* and the order has since been rated.
C18_Witness ==
  \E i \in 1..Len(orders) :
    /\ orders[i].rating # NoOrderRating
    /\ \E k \in 1..Len(orders[i].items) :
         meals[orders[i].items[k].meal].price # orders[i].items[k].price

\* C19: a Cancel-order request by the owner succeeds exactly when the status
\* is pending or confirmed; then the status becomes cancelled and the reason
\* is stored and nothing else changes; for any other status it is answered
\* 400 and the order is unchanged.
C19_CancelOrderIffCancellable ==
  [][\A u \in Users, id \in 1..Len(orders), reason \in Reasons :
       (orders[id].user = u /\ CancelOrder(u, id, reason))
       => IF orders[id].orderStatus \in {"pending", "confirmed"}
          THEN /\ last'.code = 200
               /\ orders' = [orders EXCEPT ![id].orderStatus = "cancelled",
                                           ![id].cancellationReason = reason,
                                           ![id].updatedAt = now]
          ELSE /\ last'.code = 400
               /\ orders' = orders]_vars

\* An order has been cancelled by its owner, with the reason given.
C19_Witness ==
  /\ last = OrderResponse("cancelOrder", 200, "Order cancelled successfully")
  /\ \E i \in 1..Len(orders) :
       /\ orders[i].orderStatus = "cancelled"
       /\ orders[i].cancellationReason = "schedule clash"

\* The edges of the order status graph as the specification draws it.
OrderEdges ==
  { <<"pending", "confirmed">>, <<"confirmed", "preparing">>,
    <<"preparing", "out_for_delivery">>, <<"out_for_delivery", "delivered">>,
    <<"pending", "cancelled">>, <<"confirmed", "cancelled">> }

\* C20: an order enters the collection with status pending, and every later
\* change of its status, by Cancel or by updateStatus, follows an edge of
\* pending -> confirmed -> preparing -> out_for_delivery -> delivered,
\* pending|confirmed -> cancelled; delivered and cancelled are never left.
C20_OrderStatusFollowsGraph ==
  [][ /\ \A i \in 1..Len(orders) :
           (i <= Len(orders') /\ orders'[i].orderStatus # orders[i].orderStatus)
           => <<orders[i].orderStatus, orders'[i].orderStatus>> \in OrderEdges
      /\ \A i \in (Len(orders) + 1)..Len(orders') : orders'[i].orderStatus = "pending"
    ]_vars

\* C27: whenever an order's status is delivered its deliveryTime.actual is
\* set: no operation moves an order to delivered and leaves the actual
\* delivery time unset.
C27_DeliveredHasActualTime ==
  [][\A i \in 1..Len(orders) :
       ( /\ i <= Len(orders')
         /\ orders[i].orderStatus # "delivered"
         /\ orders'[i].orderStatus = "delivered" )
       => orders'[i].actual # Undefined]_vars

\* Every item of the request names a meal that is in the catalog and active.
AllMealsAvailable(items) ==
  \A k \in 1..Len(items) :
    /\ items[k].mealId \in DOMAIN meals
    /\ meals[items[k].mealId].isActive

\* C28: a Create-order request with at least one item, every quantity at
\* least 1 and every meal in the catalog and active is not turned away by the
\* count comparison, also when two or more of its entries name the same meal:
\* the answer is never 400 "Some meals are not available".
C28_RepeatedMealAccepted ==
  [][\A items \in OrderRequests :
       ( /\ Len(items) >= 1
         /\ \A k \in 1..Len(items) : items[k].quantity >= 1
         /\ AllMealsAvailable(items)
         /\ CreateOrder(items) )
       => ~(last'.code = 400 /\ last'.message = "Some meals are not available")]_vars

\* The collection holds a booking of the request's professional, calendar
\* date and time string whose status is one of the given ones.
SlotHeldWith(request, statuses) ==
  \E b \in Range(bookings) :
    /\ b.healthProfessional = request.healthProfessionalId
    /\ b.appointmentDate = CastDate(request.appointmentDate)
    /\ b.appointmentTime = request.appointmentTime
    /\ b.status \in statuses

\* C25: a Create request that comes to the conflict check (active
\* professional, future instant inside a window) is answered 400 "This time
\* slot is already booked" exactly when the collection holds a pending or
\* confirmed booking of the same professional, calendar date and time string;
\* bookings in any other status and bookings at another start time do not
\* block it.
C25_ConflictIffSlotHeld ==
  [][\A r \in CreateRequests :
       (Bookable(r, TRUE) /\ CreateBooking(r, FALSE))
       => ( (last'.code = 400 /\ last'.message = "This time slot is already booked")
            <=> SlotHeldWith(r, {"pending", "confirmed"}) )]_vars

\* C30: updateStatus(newStatus, message) with a non-empty message, for every
\* newStatus of the status enum, on a booking and on an order, persists the
\* new status together with exactly one appended notification: the
\* notification's type is one the schema accepts and the save does not fail.
C30_StatusChangeNotifies ==
  [][ /\ \A id \in 1..Len(bookings), s \in Statuses, m \in NotificationMessages :
           UpdateStatus(id, s, m)
           => /\ bookings'[id].status = s
              /\ Len(bookings'[id].notifications) = Len(bookings[id].notifications) + 1
      /\ \A id \in 1..Len(orders), s \in OrderStatuses, m \in NotificationMessages :
           UpdateOrderStatus(id, s, m)
           => /\ orders'[id].orderStatus = s
              /\ Len(orders'[id].notifications) = Len(orders[id].notifications) + 1
    ]_vars

\* The number of 'cancelled' entries in a booking's notification log.
CancelledEntries(booking) ==
  Cardinality({k \in 1..Len(booking.notifications) :
                 booking.notifications[k] = "cancelled"})

\* C29: whatever the interleaving of the steps of two or more Cancel requests
\* on the same booking, its notification log never holds more than one
\* 'cancelled' entry, and once the booking is cancelled its cancellationDate
\* and cancellationReason stay those of the request that cancelled it.
C29_CancelledOnce ==
  [][\A i \in 1..Len(bookings) :
       /\ CancelledEntries(bookings'[i]) <= 1
       /\ bookings[i].status = "cancelled"
          => /\ bookings'[i].cancellationDate = bookings[i].cancellationDate
             /\ bookings'[i].cancellationReason = bookings[i].cancellationReason
    ]_vars

\* The order statuses in the sequence an order runs through.
StatusSequence ==
  <<"pending", "confirmed", "preparing", "out_for_delivery", "delivered">>

\* The position of a status in the sequence, 0 for a status outside it.
Position(status) ==
  IF status \in Range(StatusSequence)
  THEN CHOOSE i \in 1..Len(StatusSequence) : StatusSequence[i] = status
  ELSE 0

\* The last request was a track request that found its order.
Tracked == last.op = "trackOrder" /\ last.code = 200

\* C23: in the timeline returned for an order whose status is pending,
\* confirmed, preparing, out_for_delivery or delivered, milestone i of
\* (order_placed, order_confirmed, preparing, out_for_delivery, delivered) is
\* marked completed if and only if the status is at or beyond position i of
\* the sequence: the completed milestones are a prefix of the list.
C23_CompletedIsPrefix ==
  (Tracked /\ Position(last.data.order.status) > 0)
  => /\ Len(last.data.timeline) = Len(Milestones)
     /\ \A i \in 1..Len(Milestones) :
          /\ last.data.timeline[i].status = Milestones[i]
          /\ last.data.timeline[i].completed <=> Position(last.data.order.status) >= i

\* An order being prepared has been tracked: its first three milestones are
\* completed, the last two are not.
C23_Witness ==
  /\ Tracked
  /\ last.data.order.status = "preparing"
  /\ last.data.timeline[3].completed
  /\ ~last.data.timeline[4].completed

\* A time that is neither null nor undefined.
HasTime(entry) == entry.time \notin {Null, Undefined}

\* C26 as the specification states it: in the timeline returned for an
\* order, a milestone carries a non-null time only if it is the milestone
\* matching the order's current status; every other milestone has a null
\* time.
C26_OnlyCurrentMilestoneTimed ==
  Tracked
  => \A i \in 1..Len(Milestones) :
       HasTime(last.data.timeline[i]) => Position(last.data.order.status) = i

\* C26, amended: the order_placed milestone always carries the order's
\* creation time; each of the other four milestones carries a non-null time
\* only if it is the milestone matching the order's current status, and a
\* null time otherwise.
C26_OnlyCurrentMilestoneTimedAfterPlaced ==
  Tracked
  => /\ \E o \in Range(orders) :
          /\ o.orderNumber = last.data.order.orderNumber
          /\ last.data.timeline[1].time = o.createdAt
          /\ o.createdAt # Undefined
     /\ \A i \in 2..Len(Milestones) :
          HasTime(last.data.timeline[i]) => Position(last.data.order.status) = i

\* A confirmed order has been tracked: order_placed and order_confirmed
\* carry a time, preparing carries none.
C26_Witness ==
  /\ Tracked
  /\ last.data.order.status = "confirmed"
  /\ HasTime(last.data.timeline[1])
  /\ HasTime(last.data.timeline[2])
  /\ last.data.timeline[3].time = Null

\* A read step: the collections are as before it, and if the answer before
\* it was that of the same read, the answer is the same again.
ReadTwice(op, request) ==
  /\ bookings' = bookings
  /\ orders' = orders
  /\ (last.op = op /\ last.request = request) => last' = last

\* C24: the reads of bookings and orders (list, get by id, track by order
\* number) leave every field of every stored booking and order as it was,
\* and a read that directly follows the same read, with no change between
\* them, returns the same result.
C24_ReadsChangeNothing ==
  [][ /\ last'.op = "getBooking"
         => \A u \in Users, id \in 0..MaxRated :
              GetBooking(u, id) => ReadTwice("getBooking", <<u, id>>)
      /\ last'.op = "getOrder"
         => \A u \in Users, id \in 0..MaxRated :
              GetOrder(u, id) => ReadTwice("getOrder", <<u, id>>)
      /\ last'.op = "listBookings"
         => \A u \in Users, s \in StatusFilters :
              ListBookings(u, s) => ReadTwice("listBookings", <<u, s>>)
      /\ last'.op = "listOrders"
         => \A u \in Users, s \in StatusFilters :
              ListOrders(u, s) => ReadTwice("listOrders", <<u, s>>)
      /\ last'.op = "trackOrder"
         => \A u \in Users, n \in TrackNumbers :
              TrackOrder(u, n) => ReadTwice("trackOrder", <<u, n>>)
    ]_vars

\* An order has been read by its owner after its status was changed, and the
\* collection holds it as the answer shows it.
C24_Witness ==
  /\ last.op = "getOrder"
  /\ last.code = 200
  /\ \E i \in 1..Len(orders) :
       /\ last.request = <<orders[i].user, i>>
       /\ last.data.orderStatus = orders[i].orderStatus
       /\ last.data.updatedAt = orders[i].updatedAt
       /\ orders[i] \notin {StoredOrder(i, s) : s \in {"pending"}}

\* The documents of a collection that the user does not own are as before.
OthersUntouched(user, before, after) ==
  /\ Len(after) = Len(before)
  /\ \A i \in 1..Len(before) : before[i].user # user => after[i] = before[i]

\* A request of the user on document id: it changes no document of another
\* user, in either collection, and it is answered 404 when the document is
\* another user's.
OwnerOnly(user, id, collection) ==
  /\ OthersUntouched(user, bookings, bookings')
  /\ OthersUntouched(user, orders, orders')
  /\ (id \in 1..Len(collection) /\ collection[id].user # user) => last'.code = 404

\* C22: a Cancel or a Rate request on a booking or an order by a user who is
\* not its owner is answered 404 and leaves it unchanged, and no request of a
\* user changes any field of a booking or an order of another user.  Stated
\* for Rate requests whose ratings are inside 1..5, the ones that pass the
\* input validation.
C22_OnlyOwnerChanges ==
  [][ /\ last'.op = "cancel"
         => \A u \in Users, id \in 0..Len(bookings), reason \in Reasons :
              CancelBooking(u, id, reason) => OwnerOnly(u, id, bookings)
      /\ last'.op = "rate"
         => \A u \in Users, id \in 0..Len(bookings), r \in BookingRatings :
              RateBooking(u, id, r, NoValue)
              => /\ OthersUntouched(u, bookings, bookings')
                 /\ OthersUntouched(u, orders, orders')
                 /\ ( /\ ValidRating(r.professional) /\ ValidRating(r.service)
                      /\ ValidRating(r.overall) )
                    => OwnerOnly(u, id, bookings)
      /\ last'.op = "cancelOrder"
         => \A u \in Users, id \in 0..Len(orders), reason \in Reasons :
              CancelOrder(u, id, reason) => OwnerOnly(u, id, orders)
      /\ last'.op = "rateOrder"
         => \A u \in Users, id \in 0..Len(orders), r \in OrderRatings :
              RateOrder(u, id, r, NoValue)
              => /\ OthersUntouched(u, bookings, bookings')
                 /\ OthersUntouched(u, orders, orders')
                 /\ ( /\ ValidRating(r.food) /\ ValidRating(r.delivery)
                      /\ ValidRating(r.overall) )
                    => OwnerOnly(u, id, orders)
    ]_vars

\* A Cancel by u2 of the pending booking of u1 has been answered 404, and the
\* booking is still pending.
C22_Witness ==
  /\ last = CancelResponse(404, "Booking not found", 1, "u2")
  /\ Len(bookings) >= 1
  /\ bookings[1].user = "u1"
  /\ bookings[1].status = "pending"

\* The answers that report an error.
ErrorCodes == {400, 404, 500}

\* C21: whenever a Create or a Cancel request, for a booking or for an order,
\* is answered with an error (400, 404 or 500), the Booking and the Order
\* collections are exactly as they were before the request; in particular a
\* Create-order request that reports a failure leaves no order behind.  The
\* step of a request is the one that writes its answer; the clock's step
\* keeps the answer and writes no document.
C21_ErrorsPersistNothing ==
  [][ ( /\ last'.op \in {"create", "cancel", "createOrder", "cancelOrder"}
        /\ last'.code \in ErrorCodes )
      => (bookings' = bookings /\ orders' = orders) ]_vars

\* A Create-order request for an available meal has been answered 500, and
\* the collection holds the orders it held at the start and no other.
C21_Witness ==
  /\ last = OrderResponse("createOrder", 500, "Server error")
  /\ \E st \in OrderStatuses : orders = <<StoredOrder(1, st)>>

=============================================================================
